---- MODULE Spec2Model ----
(***************************************************************************)
(* Model of the video spell checker's analysis pipeline (src/app.py):      *)
(* the background job process_video with its job record, temporary files   *)
(* and concurrent status queries, the per-frame analyser analyze_frame     *)
(* (echo detection, dictionary cross-check), and the caption correlator    *)
(* compare_captions (time window, difflib ratio, classification).          *)
(*                                                                         *)
(* Strings are sequences of one-character strings, so that lower(),        *)
(* substring tests, join and difflib act on the characters.  A nullable    *)
(* value is None or Some(v).  Times are counted in ticks of 1/Tick second. *)
(***************************************************************************)
EXTENDS Integers, Sequences, FiniteSets, TLC

\* ------------------------------------------------------------------ bounds
\* Most frames ffmpeg extracts for one job in the job specification.
MaxFrames == 3
\* Most fragments a vision-model reply text is built from (SpecEcho).
MaxFragments == 2
\* Most frame readings and spoken segments handed to compare_captions
\* (SpecCaptions).
MaxCapFrames == 2
MaxSegs == 2

\* ----------------------------------------------------------------- strings
None == [some |-> FALSE, val |-> <<>>]
Some(v) == [some |-> TRUE, val |-> v]

\* str.lower() on one character
LowerChar(c) ==
    CASE c = "A" -> "a" [] c = "B" -> "b" [] c = "C" -> "c" [] c = "D" -> "d"
      [] c = "E" -> "e" [] c = "F" -> "f" [] c = "G" -> "g" [] c = "H" -> "h"
      [] c = "I" -> "i" [] c = "J" -> "j" [] c = "K" -> "k" [] c = "L" -> "l"
      [] c = "M" -> "m" [] c = "N" -> "n" [] c = "O" -> "o" [] c = "P" -> "p"
      [] c = "Q" -> "q" [] c = "R" -> "r" [] c = "S" -> "s" [] c = "T" -> "t"
      [] c = "U" -> "u" [] c = "V" -> "v" [] c = "W" -> "w" [] c = "X" -> "x"
      [] c = "Y" -> "y" [] c = "Z" -> "z" [] OTHER -> c

\* str.lower()
Lower(s) == [k \in 1..Len(s) |-> LowerChar(s[k])]

\* the characters the class [a-z] matches
LowerLetters ==
    {"a","b","c","d","e","f","g","h","i","j","k","l","m",
     "n","o","p","q","r","s","t","u","v","w","x","y","z"}

\* re.sub(r"[^a-z]", "", s)
RECURSIVE StripNonLetters(_)
StripNonLetters(s) ==
    IF s = <<>> THEN <<>>
    ELSE (IF Head(s) \in LowerLetters THEN <<Head(s)>> ELSE <<>>)
         \o StripNonLetters(Tail(s))

\* Python's `m in t` on strings
Contains(t, m) ==
    \E k \in 0..(Len(t) - Len(m)) : SubSeq(t, k + 1, k + Len(m)) = m

\* sep.join(parts)
RECURSIVE Join(_, _)
Join(sep, parts) ==
    IF parts = <<>> THEN <<>>
    ELSE IF Len(parts) = 1 THEN parts[1]
    ELSE parts[1] \o sep \o Join(sep, Tail(parts))

\* list(dict.fromkeys(parts)): the distinct elements, in first-seen order
RECURSIVE FromKeys(_)
FromKeys(parts) ==
    IF parts = <<>> THEN <<>>
    ELSE LET init == FromKeys(SubSeq(parts, 1, Len(parts) - 1))
             last == parts[Len(parts)]
         IN  IF \E k \in 1..Len(init) : init[k] = last
             THEN init ELSE Append(init, last)

\* ------------------------------------------------------------ analyze_frame
_ECHO_MARKERS ==
    <<
      <<"s","p","e","l","l","-","c","h","e","c","k","e","r">>,
      <<"s","p","e","l","l"," ","c","h","e","c","k","e","r">>,
      <<"v","i","d","e","o"," ","f","r","a","m","e">>,
      <<"j","s","o","n"," ","o","b","j","e","c","t">>,
      <<"n","o"," ","e","x","p","l","a","n","a","t","i","o","n">>,
      <<"n","o"," ","m","a","r","k","d","o","w","n">>,
      <<"r","e","p","l","y"," ","w","i","t","h">>,
      <<"r","e","p","l","y"," ","i","n"," ","j","s","o","n">>,
      <<"l","o","o","k"," ","a","t"," ","t","h","i","s">>,
      <<"l","o","w","e","r"," ","t","h","i","r","d","s">>,
      <<"g","r","a","p","h","i","c","s",","," ","e","t","c">>,
      <<"y","o","u"," ","a","r","e"," ","a">>,
      <<"o","n","-","s","c","r","e","e","n"," ","t","e","x","t">>,
      <<"m","i","s","s","p","e","l","l","e","d">>,
      <<"s","u","r","r","o","u","n","d","i","n","g"," ","w","o","r","d","s">>
    >>

\* a bug that declares an echo on the first marker phrase
_is_echo_OneMarker(text) ==
    IF text = <<>> THEN FALSE
    ELSE LET t == Lower(text)
         IN  Cardinality({k \in 1..Len(_ECHO_MARKERS) :
                             Contains(t, _ECHO_MARKERS[k])}) >= 1

\* sum(1 for m in _ECHO_MARKERS if m in t) >= 2
_is_echo(text) ==
    IF text = <<>> THEN FALSE
    ELSE LET t == Lower(text)
         IN  Cardinality({k \in 1..Len(_ECHO_MARKERS) :
                             Contains(t, _ECHO_MARKERS[k])}) >= 2

\* The words the shared SpellChecker instance knows (its English word list,
\* of which these are the entries the model's inputs can hit).
Dictionary == { <<"t","h","e">>, <<"a","c","t","i","o","n">> }

\* _spell.unknown([word]) is non-empty
SpellUnknown(word) == word \notin Dictionary

RECURSIVE _validate_errors(_)
_validate_errors(errors) ==
    IF errors = <<>> THEN <<>>
    ELSE LET err  == Head(errors)
             word == StripNonLetters(Lower(err.word))
         IN  (IF word # <<>> /\ SpellUnknown(word) THEN <<err>> ELSE <<>>)
             \o _validate_errors(Tail(errors))

\* The outcomes of the POST to the vision model and of parsing its reply.
\* "reply" carries the parsed JSON object {text, errors}.
CallFailures == {"network_error", "timeout", "non_2xx", "empty_reply", "malformed_json"}

\* round(frame_index / fps) with fps = 0.5, in seconds
FrameTimestamp(frame_index) == 2 * frame_index

\* lines 149-160: the echo filter, the dictionary cross-check (English
\* only) and the frame's timestamp and index, on the parsed reply
FrameReading(parsed, frame_index, language) ==
    LET astext == IF parsed.text.some THEN parsed.text.val ELSE <<>>
        kept   == IF _is_echo(astext) THEN [text |-> None, errors |-> <<>>]
                  ELSE parsed
        errs   == IF language = "english" THEN _validate_errors(kept.errors)
                  ELSE kept.errors
    IN  [text |-> kept.text, errors |-> errs,
         timestamp_sec |-> FrameTimestamp(frame_index),
         frame_index |-> frame_index]

\* a bug that leaves the request and the parse outside any try/except
analyze_frame_Unguarded(call, frame_index, language) ==
    IF call.kind # "reply"
    THEN [raised |-> TRUE, exc |-> call.kind, result |-> None]
    ELSE [raised |-> FALSE, exc |-> "",
          result |-> Some(FrameReading(call.reply, frame_index, language))]

\* analyze_frame(frame_path, frame_index, language) as {raised, exc, result}.
\* Reading the frame file (lines 86-87) is outside any try and can raise; a
\* failed request (lines 121-137) leaves raw = "", which like a malformed
\* reply (lines 144-147) parses to {"text": None, "errors": []}.
analyze_frame(call, frame_index, language) ==
    IF call.kind = "unreadable_frame"
    THEN [raised |-> TRUE, exc |-> "No such file or directory", result |-> None]
    ELSE LET parsed == IF call.kind = "reply" THEN call.reply
                       ELSE [text |-> None, errors |-> <<>>]
         IN  [raised |-> FALSE, exc |-> "",
              result |-> Some(FrameReading(parsed, frame_index, language))]

\* --------------------------------------------------------- compare_captions
\* Ticks per second: segment times are whole ticks, frame timestamps whole
\* seconds.
Tick == 2

\* The length of the common run of a[i..ahi) and b[j..bhi) (0-based)
RECURSIVE RunLen(_, _, _, _, _, _)
RunLen(a, b, i, j, ahi, bhi) ==
    IF i < ahi /\ j < bhi /\ a[i + 1] = b[j + 1]
    THEN 1 + RunLen(a, b, i + 1, j + 1, ahi, bhi)
    ELSE 0

SetMax(S) == CHOOSE x \in S : \A y \in S : y <= x
SetMin(S) == CHOOSE x \in S : \A y \in S : x <= y

\* difflib.SequenceMatcher.find_longest_match(alo, ahi, blo, bhi) without
\* junk (isjunk is None, and autojunk needs 200 characters): the longest
\* block, of those the one starting earliest in a, of those the one starting
\* earliest in b.
find_longest_match(a, b, alo, ahi, blo, bhi) ==
    LET k  == SetMax({RunLen(a, b, i, j, ahi, bhi) :
                         i \in alo..(ahi - 1), j \in blo..(bhi - 1)} \cup {0})
    IN  IF k = 0 THEN [i |-> alo, j |-> blo, k |-> 0]
        ELSE LET bi == SetMin({i \in alo..(ahi - 1) :
                                 \E j \in blo..(bhi - 1) :
                                    RunLen(a, b, i, j, ahi, bhi) = k})
                 bj == SetMin({j \in blo..(bhi - 1) :
                                 RunLen(a, b, bi, j, ahi, bhi) = k})
             IN  [i |-> bi, j |-> bj, k |-> k]

\* The total size of get_matching_blocks(): the longest match, then the
\* pieces to its left and to its right.
RECURSIVE MatchingSize(_, _, _, _, _, _)
MatchingSize(a, b, alo, ahi, blo, bhi) ==
    IF alo >= ahi \/ blo >= bhi THEN 0
    ELSE LET m == find_longest_match(a, b, alo, ahi, blo, bhi)
         IN  IF m.k = 0 THEN 0
             ELSE m.k
                  + (IF alo < m.i /\ blo < m.j
                     THEN MatchingSize(a, b, alo, m.i, blo, m.j) ELSE 0)
                  + (IF m.i + m.k < ahi /\ m.j + m.k < bhi
                     THEN MatchingSize(a, b, m.i + m.k, ahi, m.j + m.k, bhi) ELSE 0)

\* SequenceMatcher(None, a, b).ratio() = 2.0 * matches / (len(a) + len(b)),
\* kept as the fraction num / den
Ratio(a, b) ==
    IF Len(a) + Len(b) = 0 THEN [num |-> 1, den |-> 1]
    ELSE [num |-> 2 * MatchingSize(a, b, 0, Len(a), 0, Len(b)),
          den |-> Len(a) + Len(b)]

\* round(ratio * 100): Python rounds a half to the even integer.  The float
\* product gives this exact rounding for every ratio 2*M/T with T < 80 (the
\* first difference is M = 23, T = 80: 57.49999999999999 rounds to 57).
RoundPercent(r) ==
    LET q   == (100 * r.num) \div r.den
        rem == (100 * r.num) % r.den
    IN  IF 2 * rem < r.den THEN q
        ELSE IF 2 * rem > r.den THEN q + 1
        ELSE IF q % 2 = 0 THEN q ELSE q + 1

NullWords == { <<"n","u","l","l">>, <<"n","o","n","e">> }
\* the one-character string U+2014 (em dash), named since the module is ASCII
Placeholder == <<"EM DASH">>
Separator == <<" ", "|", " ">>

\* a bug that closes the window at the segment's end, without the slack
InWindow_NoSlack(seg, ft) ==
    seg.start - 2 * Tick <= ft * Tick /\ ft * Tick <= seg.end

\* (start - 2) <= ft <= (end + 2)
InWindow(seg, ft) ==
    seg.start - 2 * Tick <= ft * Tick /\ ft * Tick <= seg.end + 2 * Tick

\* The texts of the frames in the segment's window (lines 214-220)
RECURSIVE OnScreenParts(_, _)
OnScreenParts(seg, frame_results) ==
    IF frame_results = <<>> THEN <<>>
    ELSE LET frame == Head(frame_results)
             text  == IF frame.text.some THEN frame.text.val ELSE <<>>
         IN  (IF InWindow(seg, frame.timestamp_sec)
                 /\ text # <<>> /\ Lower(text) \notin NullWords
              THEN <<text>> ELSE <<>>)
             \o OnScreenParts(seg, Tail(frame_results))

\* a bug that takes a ratio equal to a threshold for the lower class
Classify_Strict(on_screen, ratio) ==
    IF on_screen # <<>>
    THEN IF 100 * ratio.num > 55 * ratio.den THEN "match"
         ELSE IF 100 * ratio.num > 25 * ratio.den THEN "partial"
         ELSE "mismatch"
    ELSE "no_caption"

\* The English-mode status (lines 227-235)
Classify(on_screen, ratio) ==
    IF on_screen # <<>>
    THEN IF 100 * ratio.num >= 55 * ratio.den THEN "match"
         ELSE IF 100 * ratio.num >= 25 * ratio.den THEN "partial"
         ELSE "mismatch"
    ELSE "no_caption"

\* f"{int(start // 60)}:{int(start % 60):02d}" as minutes and seconds
SegmentTimestamp(start) ==
    [m |-> (start \div Tick) \div 60, s |-> (start \div Tick) % 60]

\* The row of one segment with spoken text (lines 213-251)
CaptionRow(seg, frame_results, language) ==
    LET on_screen == Join(Separator, FromKeys(OnScreenParts(seg, frame_results)))
        ratio     == IF on_screen # <<>>
                     THEN Ratio(Lower(seg.text), Lower(on_screen))
                     ELSE [num |-> 0, den |-> 1]
    IN  IF language = "english"
        THEN [timestamp |-> SegmentTimestamp(seg.start),
              spoken    |-> seg.text,
              on_screen |-> IF on_screen # <<>> THEN on_screen ELSE Placeholder,
              status    |-> Classify(on_screen, ratio),
              score     |-> Some(RoundPercent(ratio))]
        ELSE [timestamp |-> SegmentTimestamp(seg.start),
              spoken    |-> seg.text,
              on_screen |-> IF on_screen # <<>> THEN on_screen ELSE Placeholder,
              status    |-> "review",
              score     |-> None]

RECURSIVE compare_captions(_, _, _)
compare_captions(frame_results, audio_segments, language) ==
    IF audio_segments = <<>> THEN <<>>
    ELSE LET seg == Head(audio_segments)
         IN  (IF seg.text = <<>> THEN <<>>
              ELSE <<CaptionRow(seg, frame_results, language)>>)
             \o compare_captions(frame_results, Tail(audio_segments), language)

\* format_timestamp(seconds): divmod(seconds, 60)
format_timestamp(seconds) == [m |-> seconds \div 60, s |-> seconds % 60]

\* ------------------------------------------------------------------- state
VARIABLES
    jobs,              \* the in-memory job store: job id -> job record
    files,             \* the job's temporary artifacts that exist on disk
    pc,                \* the worker thread's position in process_video
    language,          \* process_video's argument
    exc,               \* the message of the exception being handled
    audio_segments,    \* process_video's locals
    frames,
    i,
    all_frames,
    all_errors,
    seen_words,
    caption_accuracy,
    rpc,               \* a status query's position in status()
    resp,              \* the response the query is building / has returned
    calls,             \* history: the vision call's outcome, per analysed frame
    trace,             \* history: the steps process_video has executed
    status_hist,       \* history: the values written to the job's status
    pct_hist,          \* history: the values written to the progress percent
    observed           \* history: the status values successive queries returned

vars == <<jobs, files, pc, language, exc, audio_segments, frames, i, all_frames,
          all_errors, seen_words, caption_accuracy, rpc, resp, calls, trace,
          status_hist, pct_hist, observed>>

locals == <<audio_segments, frames, i, all_frames, all_errors, seen_words,
            caption_accuracy>>
reader == <<rpc, resp, observed>>

\* str(uuid.uuid4()) of the one job followed
JobId == "job"
Languages == {"english", "hinglish"}

NoJobs == [id \in {} |-> None]
HasJob == JobId \in DOMAIN jobs
Job == jobs[JobId]

Progress(step, pct, phase, frames_done, total_frames) ==
    [step |-> step, pct |-> pct, phase |-> phase,
     frames_done |-> frames_done, total_frames |-> total_frames]

NoResp == [complete |-> FALSE, code |-> 0, status |-> "", pct |-> 0,
           results |-> None, error |-> None, at |-> ""]

Init ==
    /\ jobs = NoJobs
    /\ files = {}
    /\ pc = "idle"
    /\ language = "english"
    /\ exc = ""
    /\ audio_segments = <<>>
    /\ frames = 0
    /\ i = 0
    /\ all_frames = <<>>
    /\ all_errors = <<>>
    /\ seen_words = {}
    /\ caption_accuracy = <<>>
    /\ rpc = "idle"
    /\ resp = NoResp
    /\ calls = <<>>
    /\ trace = <<>>
    /\ status_hist = <<>>
    /\ pct_hist = <<>>
    /\ observed = <<>>

\* ---------------------------------------------------------- worker's writes
SetStatus(s) ==
    /\ jobs' = [jobs EXCEPT ![JobId].status = s]
    /\ status_hist' = Append(status_hist, s)
    /\ pct_hist' = pct_hist

SetProgress(p) ==
    /\ jobs' = [jobs EXCEPT ![JobId].progress = p]
    /\ pct_hist' = Append(pct_hist, p.pct)
    /\ status_hist' = status_hist

NoWrite == UNCHANGED <<jobs, status_hist, pct_hist>>

\* The step `name` ran and control moved to `next`
Step(name, next) ==
    /\ trace' = Append(trace, name)
    /\ pc' = next

\* The step `name` raised: control moves to the except clause
Raise(name, message) ==
    /\ trace' = Append(trace, name)
    /\ exc' = message
    /\ pc' = "except"

\* ------------------------------------------------------------------ upload
\* upload(): save the video, create the job record, start the worker thread
Upload ==
    /\ pc = "idle"
    /\ ~HasJob
    /\ \E lang \in Languages : language' = lang
    /\ files' = {"video"}
    /\ jobs' = (JobId :> [status   |-> "queued",
                          progress |-> Progress("Queued", 0, "", 0, 0),
                          results  |-> None,
                          error    |-> None])
    /\ status_hist' = <<"queued">>
    /\ pct_hist' = <<0>>
    /\ pc' = "start"
    /\ UNCHANGED <<exc, locals, reader, calls, trace>>

\* ----------------------------------------------------------- process_video
\* line 271
P_SetProcessing ==
    /\ pc = "start"
    /\ SetStatus("processing")
    /\ Step("set_processing", "probe")
    /\ UNCHANGED <<files, language, exc, locals, reader, calls>>

\* a bug that carries on after a failed probe
P_Probe_Continue ==
    /\ pc = "probe"
    /\ NoWrite
    /\ \/ Step("probe_ok", "progress_audio")
       \/ Step("probe_failed", "progress_audio")
    /\ UNCHANGED <<files, language, exc, locals, reader, calls>>

\* lines 274-280: the liveness probe of the vision-model service
P_Probe ==
    /\ pc = "probe"
    /\ NoWrite
    /\ \/ Step("probe_ok", "progress_audio") /\ exc' = exc
       \/ Raise("probe_failed", "Cannot reach Ollama")
    /\ UNCHANGED <<files, language, locals, reader, calls>>

\* line 283
P_ProgressAudio ==
    /\ pc = "progress_audio"
    /\ SetProgress(Progress("Extracting audio", 3, "audio", 0, 0))
    /\ Step("progress_audio", "extract_audio")
    /\ UNCHANGED <<files, language, exc, locals, reader, calls>>

\* line 284: ffmpeg writes the audio file, or fails (check=True) having
\* written it or not
P_ExtractAudio ==
    /\ pc = "extract_audio"
    /\ NoWrite
    /\ \/ /\ files' = files \cup {"audio"}
          /\ Step("extract_audio", "progress_transcribe")
          /\ exc' = exc
       \/ /\ \E partial \in SUBSET {"audio"} : files' = files \cup partial
          /\ Raise("extract_audio_failed", "ffmpeg returned non-zero exit status")
    /\ UNCHANGED <<language, locals, reader, calls>>

\* line 286
P_ProgressTranscribe ==
    /\ pc = "progress_transcribe"
    /\ SetProgress(Progress("Transcribing audio", 7, "audio", 0, 0))
    /\ Step("progress_transcribe", "transcribe")
    /\ UNCHANGED <<files, language, exc, locals, reader, calls>>

\* What Whisper can return for the job's audio (transcribe_audio drops the
\* segments whose stripped text is empty).
JobSegmentLists ==
    { <<>>,
      << [start |-> 1 * Tick, end |-> 3 * Tick, text |-> <<"t","e","h">>] >> }

\* line 287: load the model and transcribe, or fail
P_Transcribe ==
    /\ pc = "transcribe"
    /\ NoWrite
    /\ \/ /\ \E segs \in JobSegmentLists : audio_segments' = segs
          /\ Step("transcribe", "progress_frames")
          /\ exc' = exc
       \/ /\ Raise("transcribe_failed", "whisper failed")
          /\ audio_segments' = audio_segments
    /\ UNCHANGED <<files, language, frames, i, all_frames, all_errors,
                   seen_words, caption_accuracy, reader, calls>>

\* line 290
P_ProgressFrames ==
    /\ pc = "progress_frames"
    /\ SetProgress(Progress("Extracting video frames", 12, "frames", 0, 0))
    /\ Step("progress_frames", "extract_frames")
    /\ UNCHANGED <<files, language, exc, locals, reader, calls>>

\* lines 291-294: ffmpeg fills the frames directory; no frame is fatal
P_ExtractFrames ==
    /\ pc = "extract_frames"
    /\ NoWrite
    /\ files' = files \cup {"frames"}
    /\ \E n \in 0..MaxFrames :
          IF n = 0
          THEN /\ Raise("no_frames", "Could not extract any frames")
               /\ frames' = frames
          ELSE /\ frames' = n
               /\ Step("extract_frames", "progress_extracted")
               /\ exc' = exc
    /\ UNCHANGED <<language, audio_segments, i, all_frames, all_errors,
                   seen_words, caption_accuracy, reader, calls>>

\* lines 296-305
P_ProgressExtracted ==
    /\ pc = "progress_extracted"
    /\ SetProgress(Progress("Extracted frames", 15, "frames", 0, 0))
    /\ Step("progress_extracted", "loop")
    /\ UNCHANGED <<files, language, exc, locals, reader, calls>>

\* a bug that forgets the 15 percent already reached
FramePct_NoBase(k, n) == (72 * k) \div n

\* line 308: 15 + int((i / len(frames)) * 72); the float product truncates
\* to floor(72 * i / n) for every 0 <= i < n < 3000
FramePct(k, n) == 15 + (72 * k) \div n

\* lines 307-315: the loop takes the next frame and reports it
P_LoopProgress ==
    /\ pc = "loop"
    /\ i < frames
    /\ SetProgress(Progress("Analysing frame", FramePct(i, frames), "analyse",
                            i + 1, frames))
    /\ Step("loop_progress", "analyze")
    /\ UNCHANGED <<files, language, exc, locals, reader, calls>>

\* a bug that compares the words as written
ErrorKey_CaseSensitive(err) == err.word

\* line 322: err.get("word", "").lower()
ErrorKey(err) == Lower(err.word)

\* lines 320-331: add the frame's errors whose word was not seen yet
RECURSIVE AggregateErrors(_, _, _, _)
AggregateErrors(errors, result, acc, seen) ==
    IF errors = <<>> THEN [all_errors |-> acc, seen_words |-> seen]
    ELSE LET err == Head(errors)
             key == ErrorKey(err)
         IN  IF key # <<>> /\ key \notin seen
             THEN AggregateErrors(Tail(errors), result,
                      Append(acc, [word          |-> err.word,
                                   suggestion    |-> err.suggestion,
                                   context       |-> result.text,
                                   timestamp_sec |-> result.timestamp_sec,
                                   timestamp     |-> format_timestamp(result.timestamp_sec)]),
                      seen \cup {key})
             ELSE AggregateErrors(Tail(errors), result, acc, seen)

NoReply == [text |-> None, errors |-> <<>>]
Err(word, suggestion) == [word |-> word, suggestion |-> suggestion]

\* The replies the vision model gives in the job specification
JobReplies ==
    { [text   |-> Some(<<"t","e","h">>),
       errors |-> << Err(<<"t","e","h">>, <<"t","h","e">>) >>],
      [text   |-> Some(<<"T","e","h"," ","a","d","n">>),
       errors |-> << Err(<<"T","e","h">>, <<"T","h","e">>), Err(<<>>, <<>>),
                     Err(<<"a","d","n">>, <<"a","n","d">>) >>],
      [text   |-> Some(<<"t","h","e">>),
       errors |-> << Err(<<"t","h","e">>, <<"t","h","e">>) >>] }

CallsOf(replies) ==
    [kind : CallFailures \cup {"unreadable_frame"}, reply : {NoReply}]
    \cup [kind : {"reply"}, reply : replies]

JobCalls == CallsOf(JobReplies)

\* lines 317-331: analyse the frame and fold its errors into the aggregate
AnalyzeFrameOf(Calls) ==
    /\ pc = "analyze"
    /\ NoWrite
    /\ \E call \in Calls :
          LET r == analyze_frame(call, i + 1, language)
          IN  /\ calls' = Append(calls, call)
              /\ IF r.raised
                 THEN /\ Raise("analyze_raised", r.exc)
                      /\ UNCHANGED <<i, all_frames, all_errors, seen_words>>
                 ELSE LET agg == AggregateErrors(r.result.val.errors, r.result.val,
                                                 all_errors, seen_words)
                      IN  /\ all_frames' = Append(all_frames, r.result.val)
                          /\ all_errors' = agg.all_errors
                          /\ seen_words' = agg.seen_words
                          /\ i' = i + 1
                          /\ Step("analyze", "loop")
                          /\ exc' = exc
    /\ UNCHANGED <<files, language, audio_segments, frames, caption_accuracy, reader>>

P_AnalyzeFrame == AnalyzeFrameOf(JobCalls)

\* line 334, after the loop's last frame
P_ProgressCompare ==
    /\ pc = "loop"
    /\ i = frames
    /\ SetProgress(Progress("Comparing captions", 90, "compare", 0, 0))
    /\ Step("progress_compare", "compare")
    /\ UNCHANGED <<files, language, exc, locals, reader, calls>>

\* line 335
P_Compare ==
    /\ pc = "compare"
    /\ NoWrite
    /\ caption_accuracy' = compare_captions(all_frames, audio_segments, language)
    /\ Step("compare", "set_done")
    /\ UNCHANGED <<files, language, exc, audio_segments, frames, i, all_frames,
                   all_errors, seen_words, reader, calls>>

\* line 338
P_SetDone ==
    /\ pc = "set_done"
    /\ SetStatus("done")
    /\ Step("set_done", "progress_done")
    /\ UNCHANGED <<files, language, exc, locals, reader, calls>>

\* line 339
P_ProgressDone ==
    /\ pc = "progress_done"
    /\ SetProgress(Progress("Analysis complete", 100, "done", 0, 0))
    /\ Step("progress_done", "set_results")
    /\ UNCHANGED <<files, language, exc, locals, reader, calls>>

\* The frames that carry text (f.get("text") is truthy)
RECURSIVE WithText(_)
WithText(fs) ==
    IF fs = <<>> THEN <<>>
    ELSE (IF Head(fs).text.some /\ Head(fs).text.val # <<>>
          THEN << [timestamp     |-> format_timestamp(Head(fs).timestamp_sec),
                   timestamp_sec |-> Head(fs).timestamp_sec,
                   text          |-> Head(fs).text] >>
          ELSE <<>>)
         \o WithText(Tail(fs))

\* lines 340-355
Results ==
    [language         |-> language,
     total_frames     |-> frames,
     frames_with_text |-> Len(WithText(all_frames)),
     errors           |-> all_errors,
     transcript       |-> WithText(all_frames),
     audio_transcript |-> audio_segments,
     caption_accuracy |-> caption_accuracy]

\* a bug that lets the assembly of the results raise after status = done
P_SetResults_Raises ==
    /\ pc = "set_results"
    /\ \/ /\ jobs' = [jobs EXCEPT ![JobId].results = Some(Results)]
          /\ Step("set_results", "finally_frames")
          /\ exc' = exc
       \/ /\ jobs' = jobs
          /\ Raise("set_results_failed", "KeyError")
    /\ UNCHANGED <<status_hist, pct_hist>>
    /\ UNCHANGED <<files, language, locals, reader, calls>>

\* a bug that writes the results in place of the final progress record
P_SetResults_Early ==
    /\ pc \in {"progress_done", "set_results"}
    /\ jobs' = [jobs EXCEPT ![JobId].results = Some(Results)]
    /\ Step("set_results", "finally_frames")
    /\ UNCHANGED <<status_hist, pct_hist>>
    /\ UNCHANGED <<files, language, exc, locals, reader, calls>>

\* lines 340-355
P_SetResults ==
    /\ pc = "set_results"
    /\ jobs' = [jobs EXCEPT ![JobId].results = Some(Results)]
    /\ Step("set_results", "finally_frames")
    /\ UNCHANGED <<status_hist, pct_hist>>
    /\ UNCHANGED <<files, language, exc, locals, reader, calls>>

\* line 358
P_ExceptStatus ==
    /\ pc = "except"
    /\ SetStatus("error")
    /\ Step("except_status", "except_error")
    /\ UNCHANGED <<files, language, exc, locals, reader, calls>>

\* line 359
P_ExceptError ==
    /\ pc = "except_error"
    /\ jobs' = [jobs EXCEPT ![JobId].error = Some(exc)]
    /\ Step("except_error", "finally_frames")
    /\ UNCHANGED <<status_hist, pct_hist>>
    /\ UNCHANGED <<files, language, exc, locals, reader, calls>>

\* line 362: shutil.rmtree(output_dir, ignore_errors=True)
P_CleanFrames ==
    /\ pc = "finally_frames"
    /\ NoWrite
    /\ files' = files \ {"frames"}
    /\ Step("cleanup_frames", "finally_video")
    /\ UNCHANGED <<language, exc, locals, reader, calls>>

\* lines 363-367, path = video_path
P_CleanVideo ==
    /\ pc = "finally_video"
    /\ NoWrite
    /\ files' = files \ {"video"}
    /\ Step("cleanup_video", "finally_audio")
    /\ UNCHANGED <<language, exc, locals, reader, calls>>

\* lines 363-367, path = audio_path (a missing file's OSError is passed over)
P_CleanAudio ==
    /\ pc = "finally_audio"
    /\ NoWrite
    /\ files' = files \ {"audio"}
    /\ Step("cleanup_audio", "returned")
    /\ UNCHANGED <<language, exc, locals, reader, calls>>

\* ------------------------------------------------------------------ status
\* The statuses seen so far, a repeated one noted once
Observe(seen, s) ==
    IF seen # <<>> /\ seen[Len(seen)] = s THEN seen ELSE Append(seen, s)

\* status(job_id): the 404 for an unknown id, else the first field read
\* (line 412).  The queries are followed one at a time: a query only reads,
\* so others running beside it change nothing it or the worker sees.
R_ReadStatus ==
    /\ rpc = "idle"
    /\ IF ~HasJob
       THEN /\ resp' = [NoResp EXCEPT !.complete = TRUE, !.code = 404, !.at = pc]
            /\ rpc' = "idle"
            /\ observed' = observed
       ELSE /\ resp' = [NoResp EXCEPT !.code = 200, !.status = Job.status, !.at = pc]
            /\ rpc' = "progress"
            /\ observed' = Observe(observed, Job.status)
    /\ UNCHANGED <<jobs, files, pc, language, exc, locals, calls, trace,
                   status_hist, pct_hist>>

\* line 413
R_ReadProgress ==
    /\ rpc = "progress"
    /\ resp' = [resp EXCEPT !.pct = Job.progress.pct]
    /\ rpc' = "results"
    /\ UNCHANGED <<jobs, files, pc, language, exc, locals, calls, trace,
                   status_hist, pct_hist, observed>>

\* line 414
R_ReadResults ==
    /\ rpc = "results"
    /\ resp' = [resp EXCEPT !.results = Job.results]
    /\ rpc' = "error"
    /\ UNCHANGED <<jobs, files, pc, language, exc, locals, calls, trace,
                   status_hist, pct_hist, observed>>

\* line 415, and the response is returned
R_ReadError ==
    /\ rpc = "error"
    /\ resp' = [resp EXCEPT !.error = Job.error, !.complete = TRUE]
    /\ rpc' = "idle"
    /\ UNCHANGED <<jobs, files, pc, language, exc, locals, calls, trace,
                   status_hist, pct_hist, observed>>

\* The worker's steps other than the analysis of a frame
WorkerSteps ==
    \/ P_SetProcessing \/ P_Probe \/ P_ProgressAudio \/ P_ExtractAudio
    \/ P_ProgressTranscribe \/ P_Transcribe \/ P_ProgressFrames
    \/ P_ExtractFrames \/ P_ProgressExtracted \/ P_LoopProgress
    \/ P_ProgressCompare \/ P_Compare \/ P_SetDone
    \/ P_ProgressDone \/ P_SetResults \/ P_ExceptStatus \/ P_ExceptError
    \/ P_CleanFrames \/ P_CleanVideo \/ P_CleanAudio

\* One job from its upload to the return of its worker thread
Next == Upload \/ WorkerSteps \/ P_AnalyzeFrame

Spec == Init /\ [][Next]_vars

\* The job under concurrent status queries; the vision model's outcomes are
\* cut to one failure, one unreadable frame and one reply.
QueryCalls ==
    { c \in JobCalls :
        \/ c.kind \in {"timeout", "unreadable_frame"}
        \/ c.kind = "reply" /\ c.reply.text = Some(<<"t","e","h">>) }

Q_AnalyzeFrame == AnalyzeFrameOf(QueryCalls)

Query == R_ReadStatus \/ R_ReadProgress \/ R_ReadResults \/ R_ReadError

NextQuery == Upload \/ WorkerSteps \/ Q_AnalyzeFrame \/ Query

SpecQuery == Init /\ [][NextQuery]_vars

\* ------------------------------------------- analyze_frame on echo replies
\* A job in the middle of its frame analysis: one frame extracted, its
\* progress reported, the vision model about to be asked.
MidJob(status, progress) ==
    (JobId :> [status |-> status, progress |-> progress,
               results |-> None, error |-> None])

\* The pieces the replies' texts are made of
EchoFragments ==
    { <<"R","e","p","l","y"," ","i","n"," ","J","S","O","N">>,
      <<" ","o","b","j","e","c","t">>,
      <<"O","N","-","S","C","R","E","E","N"," ","T","E","X","T">>,
      <<"H","e","l","l","o">>,
      <<"y","o","u"," ","a","r","e"," ","a">>,
      <<"M","i","s","s","p","e","l","l","e","d"," ">> }

EchoTexts ==
    {None} \cup
    { Some(Join(<<>>, fs)) :
        fs \in UNION { [1..n -> EchoFragments] : n \in 0..MaxFragments } }

EchoErrors ==
    { <<>>,
      << Err(<<"t","e","h">>, <<"t","h","e">>) >>,
      << Err(<<"t","h","e">>, <<"t","h","e">>), Err(<<"a","d","n">>, <<"a","n","d">>) >> }

EchoCalls == [kind : {"reply"}, reply : [text : EchoTexts, errors : EchoErrors]]

InitEcho ==
    /\ jobs = MidJob("processing", Progress("Analysing frame", 15, "analyse", 1, 1))
    /\ files = {"video", "audio", "frames"}
    /\ pc = "analyze"
    /\ language \in Languages
    /\ exc = ""
    /\ audio_segments = <<>>
    /\ frames = 1
    /\ i = 0
    /\ all_frames = <<>>
    /\ all_errors = <<>>
    /\ seen_words = {}
    /\ caption_accuracy = <<>>
    /\ rpc = "idle"
    /\ resp = NoResp
    /\ calls = <<>>
    /\ trace = <<>>
    /\ status_hist = <<"queued", "processing">>
    /\ pct_hist = <<0, 3, 7, 12, 15, 15>>
    /\ observed = <<>>

E_AnalyzeFrame == AnalyzeFrameOf(EchoCalls)

NextEcho == E_AnalyzeFrame

SpecEcho == InitEcho /\ [][NextEcho]_vars

\* ------------------------------------------------ compare_captions' inputs
CapTexts ==
    { None, Some(<<>>), Some(<<"A","B">>), Some(<<"b">>), Some(<<"N","u","l","l">>) }

\* The readings of frames 1..n, with any of the texts
CapFrameLists ==
    UNION { { [k \in 1..n |-> [text |-> texts[k], errors |-> <<>>,
                               timestamp_sec |-> FrameTimestamp(k),
                               frame_index |-> k]] :
              texts \in [1..n -> CapTexts] } : n \in 1..MaxCapFrames }

Seg(start, end, text) == [start |-> start, end |-> end, text |-> text]

CapSegs ==
    { Seg(0, 0, <<"a","b">>),
      Seg(4 * Tick, 4 * Tick, <<"b","q">>),
      Seg(4 * Tick, 4 * Tick, <<>>),
      Seg(4 * Tick + 1, 5 * Tick + 1, <<"q">>),
      Seg(20 * Tick, 22 * Tick, <<"a","b">>) }

\* Whisper's segments come ordered by start time
CapSegLists ==
    { segs \in UNION { [1..n -> CapSegs] : n \in 0..MaxSegs } :
        \A k \in 1..(Len(segs) - 1) : segs[k].start <= segs[k + 1].start }

InitCaptions ==
    /\ jobs = MidJob("processing", Progress("Comparing captions", 90, "compare", 0, 0))
    /\ files = {"video", "audio", "frames"}
    /\ pc = "compare"
    /\ language \in Languages
    /\ exc = ""
    /\ audio_segments \in CapSegLists
    /\ all_frames \in CapFrameLists
    /\ frames = Len(all_frames)
    /\ i = frames
    /\ all_errors = <<>>
    /\ seen_words = {}
    /\ caption_accuracy = <<>>
    /\ rpc = "idle"
    /\ resp = NoResp
    /\ calls = <<>>
    /\ trace = <<>>
    /\ status_hist = <<"queued", "processing">>
    /\ pct_hist = <<0, 3, 7, 12, 15, 90>>
    /\ observed = <<>>

NextCaptions == P_Compare

SpecCaptions == InitCaptions /\ [][NextCaptions]_vars

\* ------------------------------------------------------------- properties
IsPrefix(s, t) == Len(s) <= Len(t) /\ \A k \in 1..Len(s) : s[k] = t[k]

\* s is t with some elements left out
IsSubsequence(s, t) ==
    \E pos \in [1..Len(s) -> 1..Len(t)] :
        /\ \A k \in 1..Len(s) : t[pos[k]] = s[k]
        /\ \A k \in 1..(Len(s) - 1) : pos[k] < pos[k + 1]

Ran(step) == \E k \in 1..Len(trace) : trace[k] = step

StatusChains ==
    { <<"queued", "processing", "done">>, <<"queued", "processing", "error">> }

FatalSteps ==
    {"probe_failed", "extract_audio_failed", "transcribe_failed", "no_frames",
     "analyze_raised"}

HandlerSteps ==
    {"except_status", "except_error", "cleanup_frames", "cleanup_video",
     "cleanup_audio"}

CleanupPcs == {"finally_frames", "finally_video", "finally_audio", "returned"}

\* C1: the values written to a job's status are a prefix of queued ->
\* processing -> done or of queued -> processing -> error, the job's status is
\* the last one written, and the statuses successive status queries return
\* are such a chain with values left out: never a value twice, never done
\* and error both, never a step back.
C1_StatusSequence ==
    /\ \E c \in StatusChains : IsPrefix(status_hist, c)
    /\ HasJob => /\ status_hist # <<>>
                 /\ Job.status = status_hist[Len(status_hist)]
    /\ \E c \in StatusChains : IsSubsequence(observed, c)

C1_Witness ==
    /\ status_hist = <<"queued", "processing", "error">>
    /\ observed = <<"queued", "processing", "error">>
    /\ pc = "returned"

\* C2 (as claimed): in every state in which the job's status is done or
\* error, none of the job's temporary artifacts (frames directory, audio
\* file, uploaded video) remains.
C2_NoArtifactsWhenTerminal ==
    (HasJob /\ Job.status \in {"done", "error"}) => files = {}

\* C3 (as claimed): in every reachable state, status = error implies that
\* error is non-null and results is null.
C3_ErrorHasMessage ==
    (HasJob /\ Job.status = "error") => (Job.error.some /\ ~Job.results.some)

\* C3 (amended): every fatal step (failed probe, failed audio extraction or
\* transcription, zero frames, an exception in the frame analysis) is followed
\* only by the except clause and the cleanup, so no later phase runs and the
\* probe is tried once; when the except clause has run, status = error, error
\* is the exception's message and results is null.  In every state a non-null
\* error implies status = error, and status = error implies results is null.
C3_FatalPaths ==
    /\ \A k \in 1..Len(trace) :
          trace[k] \in FatalSteps =>
             \A m \in (k + 1)..Len(trace) : trace[m] \in HandlerSteps
    /\ Cardinality({k \in 1..Len(trace) : trace[k] \in {"probe_ok", "probe_failed"}}) <= 1
    /\ Ran("probe_failed") => exc = "Cannot reach Ollama"
    /\ Ran("no_frames") => exc = "Could not extract any frames"
    /\ ((\E k \in 1..Len(trace) : trace[k] \in FatalSteps) /\ pc \in CleanupPcs) =>
          /\ Job.status = "error"
          /\ Job.error.some /\ Job.error.val = exc
          /\ ~Job.results.some
    /\ (HasJob /\ Job.error.some) => (Job.status = "error" /\ Job.error.val = exc)
    /\ (HasJob /\ Job.status = "error") => ~Job.results.some

C3_Witness ==
    /\ pc = "returned"
    /\ Ran("probe_failed")
    /\ Job.status = "error"
    /\ Job.error.some

\* C4: a frame whose vision-model call failed (network error, timeout,
\* non-2xx response, empty reply, malformed JSON) gets the empty placeholder
\* reading with its timestamp and index, the analysis does not raise on it,
\* and a job none of whose steps raised returns done with one reading per
\* extracted frame.
C4_FailedCallsYieldPlaceholder ==
    /\ \A k \in 1..Len(calls) :
          calls[k].kind \in CallFailures =>
             /\ k <= Len(all_frames)
             /\ all_frames[k] = [text |-> None, errors |-> <<>>,
                                 timestamp_sec |-> 2 * k, frame_index |-> k]
    /\ (pc = "returned" /\ \A k \in 1..Len(trace) : trace[k] \notin FatalSteps) =>
          /\ Job.status = "done"
          /\ Job.results.some
          /\ Job.results.val.total_frames = frames
          /\ Len(all_frames) = frames
          /\ \A k \in 1..frames : all_frames[k].frame_index = k

C4_Witness ==
    /\ pc = "returned"
    /\ Job.status = "done"
    /\ frames = 3
    /\ calls[1].kind = "network_error"
    /\ calls[2].kind = "reply"
    /\ calls[3].kind = "malformed_json"
    /\ ~all_frames[3].text.some

\* The percents a complete run with n frames writes
ExpectedPcts(n) ==
    <<0, 3, 7, 12, 15>> \o [k \in 1..n |-> 15 + (72 * (k - 1)) \div n] \o <<90, 100>>

\* C5: the percents written to the job are 0, 3, 7, 12, 15, then
\* 15 + floor(72*i/n) for i = 0..n-1, then 90, then 100, or a prefix of that
\* when the job stops early; they never decrease and stay within 0..100.
C5_ProgressMonotone ==
    /\ \A k \in 1..Len(pct_hist) : pct_hist[k] \in 0..100
    /\ \A k \in 1..(Len(pct_hist) - 1) : pct_hist[k] <= pct_hist[k + 1]
    /\ IF frames = 0 THEN IsPrefix(pct_hist, <<0, 3, 7, 12>>)
       ELSE IsPrefix(pct_hist, ExpectedPcts(frames))
    /\ HasJob => Job.progress.pct = pct_hist[Len(pct_hist)]

C5_Witness ==
    /\ frames = 3
    /\ pct_hist = <<0, 3, 7, 12, 15, 15, 39, 63, 90, 100>>

\* The frames (by position) that flag a word equal to w ignoring case
Flagging(w) ==
    { k \in 1..Len(all_frames) :
        \E e \in 1..Len(all_frames[k].errors) :
            Lower(all_frames[k].errors[e].word) = Lower(w) }

\* C6: the aggregate error list has no two entries whose words are equal
\* ignoring case, has an entry for every non-empty word a frame flags, and
\* each entry is a flagged word with the timestamp of the first frame that
\* flags it.
C6_FirstSeenWins ==
    /\ \A a, b \in 1..Len(all_errors) :
          a # b => Lower(all_errors[a].word) # Lower(all_errors[b].word)
    /\ \A k \in 1..Len(all_frames) : \A e \in 1..Len(all_frames[k].errors) :
          all_frames[k].errors[e].word # <<>> =>
             \E a \in 1..Len(all_errors) :
                Lower(all_errors[a].word) = Lower(all_frames[k].errors[e].word)
    /\ \A a \in 1..Len(all_errors) :
          /\ all_errors[a].word # <<>>
          /\ Flagging(all_errors[a].word) # {}
          /\ LET first == CHOOSE k \in Flagging(all_errors[a].word) :
                             \A m \in Flagging(all_errors[a].word) : k <= m
             IN  /\ all_errors[a].timestamp_sec = all_frames[first].timestamp_sec
                 /\ \E e \in 1..Len(all_frames[first].errors) :
                       all_frames[first].errors[e].word = all_errors[a].word

C6_Witness ==
    /\ Len(all_frames) = 3
    /\ all_frames[1].errors = <<>>
    /\ Len(all_frames[2].errors) = 3
    /\ all_frames[2].errors[1].word = <<"T","e","h">>
    /\ Len(all_frames[3].errors) = 1
    /\ all_frames[3].errors[1].word = <<"t","e","h">>
    /\ Len(all_errors) = 2
    /\ all_errors[1].word = <<"T","e","h">>
    /\ all_errors[1].timestamp_sec = 4

\* The marker phrases the lower-cased text contains
MarkersIn(text) ==
    { m \in 1..Len(_ECHO_MARKERS) :
        \E k \in 1..Len(text) :
            /\ k + Len(_ECHO_MARKERS[m]) - 1 <= Len(text)
            /\ \A c \in 1..Len(_ECHO_MARKERS[m]) :
                  LowerChar(text[k + c - 1]) = _ECHO_MARKERS[m][c] }

\* C7: a reply whose text contains at least two of the marker phrases,
\* ignoring case, becomes the empty reading (text null, no errors); a reply
\* with at most one marker phrase, however often repeated, or with a null or
\* empty text keeps its text and its errors (dictionary-checked in English).
C7_EchoFilter ==
    \A k \in 1..Len(all_frames) :
        calls[k].kind = "reply" =>
           LET reply == calls[k].reply
               text  == IF reply.text.some THEN reply.text.val ELSE <<>>
           IN  IF Cardinality(MarkersIn(text)) >= 2
               THEN /\ ~all_frames[k].text.some
                    /\ all_frames[k].errors = <<>>
               ELSE /\ all_frames[k].text = reply.text
                    /\ all_frames[k].errors =
                          IF language = "english" THEN _validate_errors(reply.errors)
                          ELSE reply.errors

C7_Witness ==
    /\ Len(all_frames) = 1
    /\ calls[1].reply.text.some
    /\ MarkersIn(calls[1].reply.text.val) = {4, 8}
    /\ calls[1].reply.errors # <<>>
    /\ ~all_frames[1].text.some
    /\ all_frames[1].errors = <<>>

\* The texts of the frames in seg's window, both bounds inclusive: the
\* non-null ones (as claimed), or of those the ones that are neither empty nor
\* the word null or none in any case (as the code takes them)
WindowTexts(seg, anyNonNull) ==
    LET taken(f) ==
            /\ seg.start - 2 * Tick <= f.timestamp_sec * Tick
            /\ f.timestamp_sec * Tick <= seg.end + 2 * Tick
            /\ f.text.some
            /\ anyNonNull \/ (/\ f.text.val # <<>>
                              /\ Lower(f.text.val) # <<"n","u","l","l">>
                              /\ Lower(f.text.val) # <<"n","o","n","e">>)
        fs == SelectSeq(all_frames, taken)
    IN  [k \in 1..Len(fs) |-> fs[k].text.val]

RowsFollowWindow(anyNonNull) ==
    pc = "set_done" =>
       LET spoken(seg) == seg.text # <<>>
           segs == SelectSeq(audio_segments, spoken)
       IN  /\ Len(caption_accuracy) = Len(segs)
           /\ \A k \in 1..Len(segs) :
                 LET texts == FromKeys(WindowTexts(segs[k], anyNonNull))
                     shown == Join(Separator, texts)
                 IN  /\ caption_accuracy[k].spoken = segs[k].text
                     /\ \A a, b \in 1..Len(texts) : a # b => texts[a] # texts[b]
                     /\ caption_accuracy[k].on_screen =
                           IF shown = <<>> THEN Placeholder ELSE shown

\* C8 (as claimed): one row per segment with spoken text, in segment order,
\* whose on-screen text joins the distinct texts, in first-seen order, of
\* exactly the frames in the window [start - 2, end + 2] whose text is
\* non-null, the placeholder standing for none.
C8_RowsFromNonNullTexts == RowsFollowWindow(TRUE)

\* C8 (amended): the same, of exactly the frames in the window whose text is
\* non-null, non-empty and not the word "null" or "none" in any case.
C8_RowsFromUsableTexts == RowsFollowWindow(FALSE)

C8_Witness ==
    /\ pc = "set_done"
    /\ Len(all_frames) = 2
    /\ all_frames[1].text = Some(<<"A","B">>)
    /\ all_frames[2].text = Some(<<"b">>)
    /\ Len(audio_segments) = 2
    /\ audio_segments[1] = Seg(0, 0, <<"a","b">>)
    /\ audio_segments[2] = Seg(4 * Tick, 4 * Tick, <<"b","q">>)
    /\ Len(caption_accuracy) = 2
    /\ caption_accuracy[1].on_screen = <<"A","B">>
    /\ caption_accuracy[2].on_screen = <<"A","B"," ","|"," ","b">>

\* C9: in English mode a row without on-screen text is no_caption with score
\* 0, and any other row is match when ratio >= 0.55, partial when
\* 0.25 <= ratio < 0.55, mismatch when ratio < 0.25, its score
\* round(ratio * 100), an integer in 0..100 (for these texts, of fewer than 80
\* characters together, the integer nearest to 100 * ratio, the even one of
\* two); in any other mode every row is review with a null score.
C9_Classification ==
    pc = "set_done" =>
       \A k \in 1..Len(caption_accuracy) :
          LET row == caption_accuracy[k]
              r   == Ratio(Lower(row.spoken), Lower(row.on_screen))
          IN  IF language # "english"
              THEN row.status = "review" /\ ~row.score.some
              ELSE /\ row.score.some
                   /\ row.score.val \in 0..100
                   /\ IF row.on_screen = Placeholder
                      THEN row.status = "no_caption" /\ row.score.val = 0
                      ELSE /\ row.status \in {"match", "partial", "mismatch"}
                           /\ row.status = "match" <=> 100 * r.num >= 55 * r.den
                           /\ row.status = "mismatch" <=> 100 * r.num < 25 * r.den
                           /\ LET d == 2 * (row.score.val * r.den - 100 * r.num)
                              IN  /\ d <= r.den /\ -d <= r.den
                                  /\ (d = r.den \/ -d = r.den) => row.score.val % 2 = 0

C9_Witness ==
    /\ pc = "set_done"
    /\ language = "english"
    /\ \E k \in 1..Len(caption_accuracy) :
          /\ caption_accuracy[k].status = "partial"
          /\ caption_accuracy[k].score = Some(25)
    /\ \E k \in 1..Len(caption_accuracy) : caption_accuracy[k].status = "no_caption"

\* C10 (as claimed): no state has status done while results is null, and a
\* status query that returns done returns non-null results and pct = 100.
C10_DoneHasResults ==
    /\ (HasJob /\ Job.status = "done") => Job.results.some
    /\ (resp.complete /\ resp.code = 200 /\ resp.status = "done") =>
          (resp.results.some /\ resp.pct = 100)

\* C10 (amended): in every state in which results is non-null, status is done
\* and pct is 100; and a status query that starts after the worker has
\* written the results of a done job returns done, non-null results and
\* pct = 100.
C10_ResultsImplyDone ==
    /\ (HasJob /\ Job.results.some) =>
          (Job.status = "done" /\ Job.progress.pct = 100)
    /\ (resp.complete /\ resp.code = 200 /\ resp.at \in CleanupPcs
           /\ Job.status = "done") =>
          (resp.status = "done" /\ resp.results.some /\ resp.pct = 100)

C10_Witness ==
    /\ resp.complete
    /\ resp.code = 200
    /\ resp.at = "finally_frames"
    /\ resp.status = "done"
    /\ resp.results.some
    /\ resp.pct = 100

====
